---- MODULE Spec2Model ----
(***************************************************************************)
(* mcap-videoify (src/src/main.rs): a single pass over the records of an   *)
(* MCAP container that re-encodes foxglove.CompressedImage records as one  *)
(* H.264 stream per topic and copies every other record.                   *)
(*                                                                         *)
(* The process is one thread.  pc is its position in read_it / main; each  *)
(* action is one statement group of the source, with the outcome of every  *)
(* call into a library (file system, mcap, protobuf, image, openh264)      *)
(* drawn with \E.  An Option is a sequence of length 0 or 1, bytes that    *)
(* the program only parses are the value the parse would produce.          *)
(***************************************************************************)
EXTENDS Integers, Sequences, FiniteSets, TLC

\* ------------------------------------------------------------------ bounds

\* Records the input container yields at most.
MaxRecords == 2

\* ------------------------------------------------------- program constants

ExitSuccess == 0
ExitFailure == 1
\* Exit status of a Rust process whose main thread panicked (unwrap/expect).
PanicExit == 101

DefaultOutput == "compressed_video.mcap"
ImageSchemaName == "foxglove.CompressedImage"
ImageTypeName == ".foxglove.CompressedImage"
VideoSchemaName == "foxglove.CompressedVideo"
Protobuf == "protobuf"
VideoSuffix == "_video"
H264 == "h264"

None == << >>
Some(v) == << v >>
IsSome(o) == Len(o) = 1
Unwrap(o) == o[1]

\* ------------------------------------------------------------ input values

\* A file of a descriptor set: its name, the files it imports, its messages.
TimestampFile ==
    [name |-> "google/protobuf/timestamp.proto", dependency |-> {},
     message_type |-> {[full_name |-> ".google.protobuf.Timestamp",
                        field |-> {"seconds", "nanos"}]}]

ImageFile ==
    [name |-> "foxglove/CompressedImage.proto",
     dependency |-> {"google/protobuf/timestamp.proto"},
     message_type |-> {[full_name |-> ImageTypeName,
                        field |-> {"timestamp", "frame_id", "data", "format"}]}]

\* CompressedImage declared without its frame_id field.
ImageFileNoFrameId ==
    [name |-> "foxglove/CompressedImage.proto",
     dependency |-> {"google/protobuf/timestamp.proto"},
     message_type |-> {[full_name |-> ImageTypeName,
                        field |-> {"timestamp", "data", "format"}]}]

PoseFile ==
    [name |-> "foxglove/Pose.proto", dependency |-> {},
     message_type |-> {[full_name |-> ".foxglove.Pose",
                        field |-> {"position", "orientation"}]}]

\* Schema bytes: whether they parse as a FileDescriptorSet, and its files.
Fds(files) == [valid |-> TRUE, file |-> files]
GarbageBytes == [valid |-> FALSE, file |-> << >>]

ImageSchema(bytes) ==
    [name |-> ImageSchemaName, encoding |-> Protobuf, data |-> bytes]

\* An encoded still image: whether some format decodes it, and its size.
Image(w, h) == [decodable |-> TRUE, width |-> w, height |-> h]
EmptyBytes == [decodable |-> FALSE, width |-> 0, height |-> 0]

\* A record's payload: whether it parses as a protobuf message, and the
\* values of the three fields when set.
OpaquePayload ==
    [valid |-> FALSE, timestamp |-> None, frame_id |-> None, data |-> None]
PayloadUnset ==
    [valid |-> TRUE, timestamp |-> None, frame_id |-> None, data |-> None]
PayloadA ==
    [valid |-> TRUE, timestamp |-> Some(<<10, 500>>), frame_id |-> Some("cam"),
     data |-> Some(Image(64, 48))]
PayloadB ==
    [valid |-> TRUE, timestamp |-> None, frame_id |-> None,
     data |-> Some(Image(32, 24))]

Payloads == {OpaquePayload, PayloadUnset, PayloadA, PayloadB}

Channel(t, s) ==
    [topic |-> t, schema |-> s, message_encoding |-> Protobuf,
     metadata |-> << >>]

GoodImageSchema == ImageSchema(Fds(<<TimestampFile, ImageFile>>))

\* Channels of the input container: two of the still-image signature, ...
ImageChannels ==
    {Channel("/cam", Some(GoodImageSchema)),
     Channel("/cam_video", Some(GoodImageSchema))}

\* ... one of another schema name and one of another schema encoding, ...
ImuChannel ==
    Channel("/imu", Some([name |-> "sensor.Imu", encoding |-> Protobuf,
                          data |-> Fds(<<PoseFile>>)]))

JsonChannel ==
    Channel("/cam", Some([name |-> ImageSchemaName, encoding |-> "jsonschema",
                          data |-> GarbageBytes]))

\* ... and channels with no schema, with schema bytes that are no descriptor
\* set, and with descriptor sets that have the type in their first file, miss
\* an imported file, are empty, lack the type, or lack a field of it.
FaultyChannels ==
    {Channel("/raw", None),
     Channel("/bad", Some(ImageSchema(GarbageBytes))),
     Channel("/bad", Some(ImageSchema(Fds(<<ImageFile, TimestampFile>>)))),
     Channel("/bad", Some(ImageSchema(Fds(<<ImageFile>>)))),
     Channel("/bad", Some(ImageSchema(Fds(<< >>)))),
     Channel("/bad", Some(ImageSchema(Fds(<<TimestampFile, PoseFile>>)))),
     Channel("/bad", Some(ImageSchema(Fds(<<TimestampFile, ImageFileNoFrameId>>))))}

\* (log_time, publish_time, sequence) of a record.
Timings == {<<100, 90, 7>>, <<90, 100, 8>>}

Message(c, p, t) ==
    [channel |-> c, data |-> p,
     log_time |-> t[1], publish_time |-> t[2], sequence |-> t[3]]

\* The records the input container can hold.
Messages ==
    {Message(c, p, t) : c \in ImageChannels, p \in Payloads, t \in Timings}
      \cup {Message(ImuChannel, OpaquePayload, t) : t \in Timings}
      \cup {Message(JsonChannel, PayloadA, t) : t \in Timings}
      \cup {Message(c, PayloadA, t) : c \in FaultyChannels, t \in Timings}

NoMessage == Message(Channel("", None), OpaquePayload, <<0, 0, 0>>)

\* Argument lists of the runs that convert a file.
RunArgs ==
    {<<"mcap-videoify", "-i", "in.mcap">>,
     <<"mcap-videoify", "--silent", "--input", "in.mcap", "--output", "out.mcap">>}

\* ------------------------------------------------------------------- state

VARIABLES
    pc,                 \* position in read_it / main
    args, i,            \* env::args() and the scan index (0-based, as in Rust)
    input_path, output_path, silent, warmup,
    mapped,             \* the mapped input, once map_mcap returned it
    files,              \* paths File::create has created
    topic_channels, encoders_by_topic,
    video_mcap,         \* the writer: the calls it has accepted, in order
    full_message, msg, parsed, timestamp, frame_id, data, rgb8, topic,
    bitstream, out_msg, \* locals of one loop iteration
    result,             \* what read_it returned to main
    exit_code, stderr, stdout,
    input,              \* the records the stream has yielded so far
    encoders_created,   \* Encoder::with_config calls that succeeded, in order
    processed           \* per completed iteration: what became of the record

cli == <<args, i, input_path, output_path, silent, warmup>>
locals == <<full_message, msg, parsed, timestamp, frame_id, data, rgb8, topic,
            bitstream, out_msg>>
maps == <<topic_channels, encoders_by_topic>>
term == <<result, exit_code, stderr>>
hist == <<input, encoders_created, processed>>
vars == <<pc, cli, mapped, files, maps, video_mcap, locals, term, stdout, hist>>

NoDescriptor == [full_name |-> "", field |-> {}]
NoSize == [width |-> 0, height |-> 0]
NoOutMsg == [timestamp |-> <<0, 0>>, frame_id |-> "", format |-> "",
             data |-> << >>]
EmptyMap == << >>

\* The locals of an iteration before it has assigned them.
LocalsInit ==
    /\ full_message = NoMessage
    /\ msg = NoDescriptor
    /\ parsed = OpaquePayload
    /\ timestamp = <<0, 0>>
    /\ frame_id = ""
    /\ data = EmptyBytes
    /\ rgb8 = NoSize
    /\ topic = ""
    /\ bitstream = << >>
    /\ out_msg = NoOutMsg

\* The locals go out of scope at the end of an iteration.
DropLocals ==
    /\ full_message' = NoMessage
    /\ msg' = NoDescriptor
    /\ parsed' = OpaquePayload
    /\ timestamp' = <<0, 0>>
    /\ frame_id' = ""
    /\ data' = EmptyBytes
    /\ rgb8' = NoSize
    /\ topic' = ""
    /\ bitstream' = << >>
    /\ out_msg' = NoOutMsg

InitWith(a) ==
    /\ pc = "scan"
    /\ args = a
    /\ i = 1
    /\ input_path = None
    /\ output_path = DefaultOutput
    /\ silent = FALSE
    /\ warmup = FALSE
    /\ mapped = None
    /\ files = {}
    /\ topic_channels = EmptyMap
    /\ encoders_by_topic = EmptyMap
    /\ video_mcap = << >>
    /\ LocalsInit
    /\ result = None
    /\ exit_code = ExitSuccess
    /\ stderr = << >>
    /\ stdout = << >>
    /\ input = << >>
    /\ encoders_created = << >>
    /\ processed = << >>

Init == \E a \in RunArgs : InitWith(a)

\* ------------------------------------------------------- ways a step ends

Goto(l) == pc' = l /\ UNCHANGED term

\* Mutant: the error is dropped and the loop goes on with the next record.
ReturnErrContinue(e) == pc' = "next" /\ UNCHANGED <<result, exit_code, stderr>>

\* Mutant: unwrap() in place of `?`.
ReturnErrPanics(e) ==
    /\ pc' = "exited"
    /\ exit_code' = 101
    /\ stderr' = Append(stderr, "panicked: " \o e)
    /\ UNCHANGED result

\* Mutant: a bad command line is treated like --help: exit(0) after the text.
ReturnErrExitsZero(e) ==
    /\ pc' = "exited"
    /\ exit_code' = 0
    /\ stderr' = Append(stderr, e)
    /\ UNCHANGED result

\* Mutant: the error is dropped and read_it goes on to create the output.
ReturnErrIgnored(e) == pc' = "setup" /\ UNCHANGED <<result, exit_code, stderr>>

\* Mutant: `break` in place of `?`: the error ends the loop and the run goes on
\* to the finalize step.
ReturnErrFinalizes(e) == pc' = "finish" /\ UNCHANGED <<result, exit_code, stderr>>

\* `?` and bail!: read_it returns Err(e) to main.
ReturnErr(e) ==
    /\ pc' = "main"
    /\ result' = Some([ok |-> FALSE, err |-> e])
    /\ UNCHANGED <<exit_code, stderr>>

ReturnOk ==
    /\ pc' = "main"
    /\ result' = Some([ok |-> TRUE, err |-> ""])
    /\ UNCHANGED <<exit_code, stderr>>

\* unwrap()/expect() on an Err or None, an index out of bounds: the thread
\* panics, the message goes to stderr and the process ends with status 101.
Panic(e) ==
    /\ pc' = "exited"
    /\ exit_code' = PanicExit
    /\ stderr' = Append(stderr, "panicked: " \o e)
    /\ UNCHANGED result

\* Mutant: the exit is missing and read_it goes on to open the input.
ExitNowContinues == pc' = "open" /\ UNCHANGED <<result, exit_code, stderr>>

\* std::process::exit(0)
ExitNow ==
    /\ pc' = "exited"
    /\ exit_code' = ExitSuccess
    /\ UNCHANGED <<result, stderr>>

\* ------------------------------------------------------- argument parsing

\* args[k] of the source (0-based).
Arg(k) == args[k + 1]

HelpLine == "mcap-videoify - Convert MCAP files"
WarmLine == "mcap-videoify and underlying rust environment has been warmed up."

\* One iteration of the while loop over the arguments.
ScanArg ==
    /\ pc = "scan"
    /\ i < Len(args)
    /\ UNCHANGED <<args, mapped, files, maps, video_mcap, locals, hist>>
    /\ CASE Arg(i) \in {"--input", "-i"} ->
              IF i + 1 < Len(args)
              THEN /\ input_path' = Some(Arg(i + 1))
                   /\ i' = i + 2
                   /\ Goto("scan")
                   /\ UNCHANGED <<output_path, silent, warmup, stdout>>
              ELSE /\ ReturnErr("Missing value for --input/-i argument")
                   /\ UNCHANGED <<i, input_path, output_path, silent, warmup,
                                  stdout>>
         [] Arg(i) \in {"--output", "-o"} ->
              IF i + 1 < Len(args)
              THEN /\ output_path' = Arg(i + 1)
                   /\ i' = i + 2
                   /\ Goto("scan")
                   /\ UNCHANGED <<input_path, silent, warmup, stdout>>
              ELSE /\ ReturnErr("Missing value for --output/-o argument")
                   /\ UNCHANGED <<i, input_path, output_path, silent, warmup,
                                  stdout>>
         [] Arg(i) = "--silent" ->
              /\ silent' = TRUE
              /\ i' = i + 1
              /\ Goto("scan")
              /\ UNCHANGED <<input_path, output_path, warmup, stdout>>
         [] Arg(i) = "--warm-up" ->
              /\ warmup' = TRUE
              /\ i' = i + 1
              /\ Goto("scan")
              /\ UNCHANGED <<input_path, output_path, silent, stdout>>
         [] Arg(i) \in {"--help", "-h"} ->
              /\ stdout' = Append(stdout, HelpLine)
              /\ ExitNow
              /\ UNCHANGED <<i, input_path, output_path, silent, warmup>>
         [] OTHER ->
              /\ ReturnErr("Unexpected argument: " \o Arg(i))
              /\ UNCHANGED <<i, input_path, output_path, silent, warmup,
                             stdout>>

\* The loop ends; the warm-up check.
WarmUp ==
    /\ pc = "scan"
    /\ ~(i < Len(args))
    /\ UNCHANGED <<cli, mapped, files, maps, video_mcap, locals, hist>>
    /\ IF warmup
       THEN stdout' = Append(stdout, WarmLine) /\ ExitNow
       ELSE Goto("open") /\ UNCHANGED stdout

\* ------------------------------------------------------- opening the files

\* input_path.ok_or_else(..)?  and  map_mcap(&input_path)?
OpenInput ==
    /\ pc = "open"
    /\ UNCHANGED <<cli, files, maps, video_mcap, locals, stdout, hist>>
    /\ IF ~IsSome(input_path)
       THEN ReturnErr("No input file specified") /\ UNCHANGED mapped
       ELSE \E r \in {"ok", "open", "map"} :
              CASE r = "ok" -> mapped' = input_path /\ Goto("setup")
                [] r = "open" ->
                     ReturnErr("Couldn't open MCAP file") /\ UNCHANGED mapped
                [] OTHER ->
                     ReturnErr("Couldn't map MCAP file") /\ UNCHANGED mapped

VideoFile ==
    [name |-> "foxglove/CompressedVideo.proto",
     dependency |-> {"google/protobuf/timestamp.proto"},
     message_type |-> {[full_name |-> ".foxglove.CompressedVideo",
                        field |-> {"timestamp", "frame_id", "data", "format"}]}]

compressed_video_schema ==
    [name |-> VideoSchemaName, encoding |-> Protobuf,
     data |-> Fds(<<VideoFile, TimestampFile>>)]

\* The output schema, the two empty maps and the writer over a new file.
Setup ==
    /\ pc = "setup"
    /\ UNCHANGED <<cli, mapped, locals, stdout, hist>>
    /\ topic_channels' = EmptyMap
    /\ encoders_by_topic' = EmptyMap
    /\ \E ok \in BOOLEAN :
         IF ok
         THEN /\ files' = files \cup {output_path}
              /\ video_mcap' = << >>
              /\ Goto("stream")
         ELSE /\ Panic("File::create")
              /\ UNCHANGED <<files, video_mcap>>

\* ------------------------------------------------------------- the writer

WriteCall(m) == [op |-> "write", message |-> m]
AddChannelCall(c) == [op |-> "add_channel", channel |-> c]
FinishCall == [op |-> "finish"]

\* ------------------------------------------------------------ the loop

\* What the message stream can yield after n records.
StreamEvents(n) ==
    {"end", "corrupt"} \cup (IF n < MaxRecords THEN {"record"} ELSE {})

\* MessageStream::new(&mapped)?
OpenStream ==
    /\ pc = "stream"
    /\ UNCHANGED <<cli, mapped, files, maps, video_mcap, locals, stdout, hist>>
    /\ \E ok \in BOOLEAN :
         IF ok THEN Goto("next") ELSE ReturnErr("Bad magic")

\* The iterator's next item and message.unwrap().
NextMessage ==
    /\ pc = "next"
    /\ UNCHANGED <<cli, mapped, files, maps, video_mcap, stdout,
                   encoders_created, processed>>
    /\ UNCHANGED <<msg, parsed, timestamp, frame_id, data, rgb8, topic,
                   bitstream, out_msg>>
    /\ \E ev \in StreamEvents(Len(input)) :
         \E m \in (IF ev = "record" THEN Messages ELSE {NoMessage}) :
           CASE ev = "record" ->
                  /\ input' = Append(input, m)
                  /\ full_message' = m
                  /\ Goto("classify")
             [] ev = "end" ->
                  /\ Goto("finish")
                  /\ UNCHANGED <<input, full_message>>
             [] OTHER ->
                  /\ Panic("message.unwrap()")
                  /\ UNCHANGED <<input, full_message>>

\* Mutant: the encoding is not tested.
MatchesNameOnly(schema) == schema.name = ImageSchemaName

\* The still-image signature (the negation of the test of line 151).
Matches(schema) ==
    ~(schema.name # ImageSchemaName \/ schema.encoding # Protobuf)

\* What a completed iteration leaves in the history: the derived topic, the
\* encoder and the channel it used, and the access unit the encoder returned
\* (a record left as it is used none).
Outcome(t, e, c, unit) ==
    [topic |-> t, encoder |-> e, channel |-> c, unit |-> unit]

\* The message handed to the writer for a record that is left as it is.
PassThroughMessage(m) == m

\* The schema test; a record of any other schema is written as it is.
Classify ==
    /\ pc = "classify"
    /\ UNCHANGED <<cli, mapped, files, maps, input, encoders_created>>
    /\ IF ~IsSome(full_message.channel.schema)
       THEN /\ Panic("schema.unwrap()")
            /\ UNCHANGED <<video_mcap, locals, stdout, processed>>
       ELSE LET schema == Unwrap(full_message.channel.schema) IN
            IF ~Matches(schema)
            THEN /\ stdout' = IF silent THEN stdout
                              ELSE Append(stdout, "Leaving message as-is: "
                                                   \o schema.name)
                 /\ \E ok \in BOOLEAN :
                      IF ok
                      THEN /\ video_mcap' =
                                Append(video_mcap,
                                       WriteCall(PassThroughMessage(full_message)))
                           /\ processed' =
                                Append(processed,
                                       Outcome("", 0, full_message.channel, << >>))
                           /\ DropLocals
                           /\ Goto("next")
                      ELSE /\ Panic("write")
                           /\ UNCHANGED <<video_mcap, locals, processed>>
            ELSE /\ Goto("resolve")
                 /\ UNCHANGED <<video_mcap, locals, stdout, processed>>

\* FileDescriptor::new_dynamic_fds: every import must be a file of the set.
DepsResolved(file) ==
    \A k \in 1..Len(file) :
        file[k].dependency \subseteq {file[j].name : j \in 1..Len(file)}

\* message_by_full_name: the messages of one file that carry the name.
message_by_full_name(fd, name) ==
    {m \in fd.message_type : m.full_name = name}

\* Index (0-based) of the file of the set in which the type is looked up.
DescriptorIndex == 1

\* The schema bytes to the descriptor of the still-image type.
Resolve ==
    /\ pc = "resolve"
    /\ UNCHANGED <<cli, mapped, files, maps, video_mcap, stdout, hist>>
    /\ UNCHANGED <<full_message, parsed, timestamp, frame_id, data, rgb8,
                   topic, bitstream, out_msg>>
    /\ LET schema == Unwrap(full_message.channel.schema)
           set_proto == schema.data
       IN  CASE ~set_proto.valid ->
                  ReturnErr("SchemaParse") /\ UNCHANGED msg
             [] ~DepsResolved(set_proto.file) ->
                  Panic("new_dynamic_fds") /\ UNCHANGED msg
             [] ~(DescriptorIndex < Len(set_proto.file)) ->
                  Panic("index out of bounds") /\ UNCHANGED msg
             [] message_by_full_name(set_proto.file[DescriptorIndex + 1],
                                     ImageTypeName) = {} ->
                  Panic("message_by_full_name") /\ UNCHANGED msg
             [] OTHER ->
                  /\ msg' = CHOOSE m \in message_by_full_name(
                                set_proto.file[DescriptorIndex + 1],
                                ImageTypeName) : TRUE
                  /\ Goto("parse")

\* msg.parse_from_bytes(&full_message.data)? and the diagnostic print.
ParsePayload ==
    /\ pc = "parse"
    /\ UNCHANGED <<cli, mapped, files, maps, video_mcap, hist>>
    /\ UNCHANGED <<full_message, msg, timestamp, frame_id, data, rgb8, topic,
                   bitstream, out_msg>>
    /\ IF full_message.data.valid
       THEN /\ parsed' = full_message.data
            /\ stdout' = IF silent THEN stdout
                         ELSE Append(stdout, msg.full_name)
            /\ Goto("fields")
       ELSE /\ ReturnErr("PayloadParse")
            /\ UNCHANGED <<parsed, stdout>>

\* get_singular_field_or_default: the value, or the field's default.
OrDefault(o, default) == IF IsSome(o) THEN Unwrap(o) ELSE default

\* The three field lookups.
ExtractFields ==
    /\ pc = "fields"
    /\ UNCHANGED <<cli, mapped, files, maps, video_mcap, stdout, hist>>
    /\ UNCHANGED <<full_message, msg, parsed, rgb8, topic, bitstream, out_msg>>
    /\ IF {"timestamp", "frame_id", "data"} \subseteq msg.field
       THEN /\ timestamp' = OrDefault(parsed.timestamp, <<0, 0>>)
            /\ frame_id' = OrDefault(parsed.frame_id, "")
            /\ data' = OrDefault(parsed.data, EmptyBytes)
            /\ Goto("decode")
       ELSE /\ Panic("field_by_name")
            /\ UNCHANGED <<timestamp, frame_id, data>>

\* with_guessed_format, reader.decode()? and to_rgb8.
DecodeImage ==
    /\ pc = "decode"
    /\ UNCHANGED <<cli, mapped, files, maps, video_mcap, stdout, hist>>
    /\ UNCHANGED <<full_message, msg, parsed, timestamp, frame_id, data, topic,
                   bitstream, out_msg>>
    /\ IF data.decodable
       THEN /\ rgb8' = [width |-> data.width, height |-> data.height]
            /\ Goto("encoder")
       ELSE /\ ReturnErr("ImageDecode")
            /\ UNCHANGED rgb8

\* Mutant: a topic that already ends in the suffix is kept as it is.
DerivedTopicOnce(t) ==
    IF /\ Len(t) >= Len(VideoSuffix)
       /\ SubSeq(t, Len(t) - Len(VideoSuffix) + 1, Len(t)) = VideoSuffix
    THEN t
    ELSE t \o VideoSuffix

\* The output topic of an input topic.
DerivedTopic(t) == t \o VideoSuffix

\* Mutant: an entry whose encoder has another size than the frame counts as
\* vacant, so that the encoder is created anew for the frame's size.
VacantOnResize(map, key) ==
    \/ key \notin DOMAIN map
    \/ /\ map = encoders_by_topic
       /\ <<map[key].width, map[key].height>> # <<rgb8.width, rgb8.height>>

\* Mutant: insert instead of entry().or_insert_with(): the closure always runs.
VacantAlways(map, key) == TRUE

\* HashMap::entry(key): whether the entry is vacant, so that or_insert_with
\* runs its closure.
Vacant(map, key) == key \notin DOMAIN map

\* Mutant: a new channel is registered with the writer but not kept in the
\* registry.
InsertUnlessChannel(map, key, value) ==
    IF "schema" \in DOMAIN value THEN map ELSE (key :> value) @@ map

Insert(map, key, value) == (key :> value) @@ map

\* Bitrate every encoder is configured with.
BitrateBps == 10000000

NewEncoder(id, size) ==
    [id |-> id, width |-> size.width, height |-> size.height,
     bitrate_bps |-> BitrateBps, frames |-> 0]

\* The derived topic and encoders_by_topic.entry(topic).or_insert_with(..).
GetEncoder ==
    /\ pc = "encoder"
    /\ UNCHANGED <<cli, mapped, files, topic_channels, video_mcap, stdout,
                   input, processed>>
    /\ UNCHANGED <<full_message, msg, parsed, timestamp, frame_id, data, rgb8,
                   bitstream, out_msg>>
    /\ topic' = DerivedTopic(full_message.channel.topic)
    /\ IF Vacant(encoders_by_topic, topic')
       THEN \E ok \in BOOLEAN :
              IF ok
              THEN /\ encoders_by_topic' =
                        Insert(encoders_by_topic, topic',
                               NewEncoder(Len(encoders_created) + 1, rgb8))
                   /\ encoders_created' =
                        Append(encoders_created,
                               [topic |-> topic', width |-> rgb8.width,
                                height |-> rgb8.height])
                   /\ Goto("encode")
              ELSE /\ Panic("Encoder::with_config")
                   /\ UNCHANGED <<encoders_by_topic, encoders_created>>
       ELSE /\ Goto("encode")
            /\ UNCHANGED <<encoders_by_topic, encoders_created>>

\* The access unit of one encode call: empty, or bytes that name the call.
AccessUnit(encoder, size, empty) ==
    IF empty THEN << >>
    ELSE << [encoder |-> encoder.id, frame |-> encoder.frames + 1,
             width |-> size.width, height |-> size.height] >>

\* YUVBuffer::with_rgb and encoder.encode(&yuv).unwrap().
Encode ==
    /\ pc = "encode"
    /\ UNCHANGED <<cli, mapped, files, topic_channels, video_mcap, stdout, hist>>
    /\ UNCHANGED <<full_message, msg, parsed, timestamp, frame_id, data, rgb8,
                   topic, out_msg>>
    /\ \E r \in {"error", "empty", "data"} :
         IF r = "error"
         THEN /\ Panic("encode")
              /\ UNCHANGED <<encoders_by_topic, bitstream>>
         ELSE /\ bitstream' =
                   AccessUnit(encoders_by_topic[topic], rgb8, r = "empty")
              /\ encoders_by_topic' =
                   [encoders_by_topic EXCEPT ![topic].frames = @ + 1]
              /\ Goto("assemble")

\* Mutant: frame_id is never assigned and keeps its default.
CompressedVideoNoFrameId(ts, id, bytes) ==
    [timestamp |-> ts, frame_id |-> "", format |-> H264, data |-> bytes]

\* The CompressedVideo message of a frame.
CompressedVideo(ts, id, bytes) ==
    [timestamp |-> ts, frame_id |-> id, format |-> H264, data |-> bytes]

\* write_to_bytes_dyn of the timestamp value: its fields that are not zero,
\* each with its field number (seconds = 1, nanos = 2).
TimestampBytes(ts) ==
    (IF ts[1] # 0 THEN <<[number |-> 1, value |-> ts[1]]>> ELSE << >>)
      \o (IF ts[2] # 0 THEN <<[number |-> 2, value |-> ts[2]]>> ELSE << >>)

\* The value a parse gives to field `number`: the last one in the bytes, or
\* zero when the bytes hold none.
FieldValue(bytes, number) ==
    LET found == SelectSeq(bytes, LAMBDA f : f.number = number) IN
    IF found = << >> THEN 0 ELSE found[Len(found)].value

\* Timestamp::parse_from_bytes; time.seconds and time.nanos.
ParseTimestamp(bytes) == <<FieldValue(bytes, 1), FieldValue(bytes, 2)>>

\* out_msg and its serialization.
Assemble ==
    /\ pc = "assemble"
    /\ UNCHANGED <<cli, mapped, files, maps, video_mcap, stdout, hist>>
    /\ UNCHANGED <<full_message, msg, parsed, timestamp, frame_id, data, rgb8,
                   topic, bitstream>>
    /\ out_msg' = CompressedVideo(ParseTimestamp(TimestampBytes(timestamp)),
                                  frame_id, bitstream)
    /\ Goto("channel")

NewChannel(key) ==
    [topic |-> key, schema |-> Some(compressed_video_schema),
     message_encoding |-> Protobuf, metadata |-> << >>]

\* Mutant: the channel is registered only for a frame that has data to write.
add_channelIfData(writer, channel) ==
    IF bitstream = << >> THEN writer ELSE Append(writer, AddChannelCall(channel))

\* Mutant: the channel is built and cached but never registered.
add_channelForgotten(writer, channel) == writer

\* video_mcap.add_channel(&new_channel), accepted by the writer.
add_channel(writer, channel) == Append(writer, AddChannelCall(channel))

\* topic_channels.entry(topic).or_insert_with_key(..): a vacant entry builds
\* the channel and registers it with the writer.
GetChannel ==
    /\ pc = "channel"
    /\ UNCHANGED <<cli, mapped, files, encoders_by_topic, stdout, hist, locals>>
    /\ IF Vacant(topic_channels, topic)
       THEN \E ok \in BOOLEAN :
              IF ok
              THEN /\ video_mcap' = add_channel(video_mcap, NewChannel(topic))
                   /\ topic_channels' =
                        Insert(topic_channels, topic, NewChannel(topic))
                   /\ Goto("write")
              ELSE /\ Panic("Couldn't write channel")
                   /\ UNCHANGED <<topic_channels, video_mcap>>
       ELSE /\ Goto("write")
            /\ UNCHANGED <<topic_channels, video_mcap>>

\* Mutant: the two timestamps are exchanged.
OutMessageSwapped(channel, bytes, source) ==
    [channel |-> channel, data |-> bytes, log_time |-> source.publish_time,
     publish_time |-> source.log_time, sequence |-> source.sequence]

\* The output record of a frame.
OutMessage(channel, bytes, source) ==
    [channel |-> channel, data |-> bytes, log_time |-> source.log_time,
     publish_time |-> source.publish_time, sequence |-> source.sequence]

\* Mutant: len() >= 0.
NonEmptyAlways(bytes) == Len(bytes) >= 0

\* Mutant: the test is inverted.
NonEmptyInverted(bytes) == Len(bytes) = 0

\* The test of line 257.
NonEmpty(bytes) == Len(bytes) > 0

\* The output record, written unless the access unit is empty; the iteration
\* ends.
WriteVideo ==
    /\ pc = "write"
    /\ UNCHANGED <<cli, mapped, files, maps, stdout, input, encoders_created>>
    /\ LET channel == topic_channels[topic]
           message == OutMessage(channel, out_msg, full_message)
           done == Outcome(topic, encoders_by_topic[topic].id, channel,
                           bitstream)
       IN  IF NonEmpty(out_msg.data)
           THEN \E ok \in BOOLEAN :
                  IF ok
                  THEN /\ video_mcap' = Append(video_mcap, WriteCall(message))
                       /\ processed' = Append(processed, done)
                       /\ DropLocals
                       /\ Goto("next")
                  ELSE /\ Panic("write")
                       /\ UNCHANGED <<video_mcap, locals, processed>>
           ELSE /\ processed' = Append(processed, done)
                /\ DropLocals
                /\ Goto("next")
                /\ UNCHANGED video_mcap

\* video_mcap.finish().unwrap() and Ok(()).
Finish ==
    /\ pc = "finish"
    /\ UNCHANGED <<cli, mapped, files, maps, locals, stdout, hist>>
    /\ \E ok \in BOOLEAN :
         IF ok
         THEN video_mcap' = Append(video_mcap, FinishCall) /\ ReturnOk
         ELSE Panic("finish") /\ UNCHANGED video_mcap

\* main: an Err is printed and the process exits with 1; Ok falls off main.
Main ==
    /\ pc = "main"
    /\ UNCHANGED <<cli, mapped, files, maps, video_mcap, locals, stdout, hist,
                   result>>
    /\ pc' = "exited"
    /\ IF Unwrap(result).ok
       THEN exit_code' = ExitSuccess /\ UNCHANGED stderr
       ELSE /\ exit_code' = ExitFailure
            /\ stderr' = Append(stderr, "Error: " \o Unwrap(result).err)

Next ==
    \/ ScanArg
    \/ WarmUp
    \/ OpenInput
    \/ Setup
    \/ OpenStream
    \/ NextMessage
    \/ Classify
    \/ Resolve
    \/ ParsePayload
    \/ ExtractFields
    \/ DecodeImage
    \/ GetEncoder
    \/ Encode
    \/ Assemble
    \/ GetChannel
    \/ WriteVideo
    \/ Finish
    \/ Main

Spec == Init /\ [][Next]_vars

\* ----------------------------------------------------- the command line

\* Arguments after the program name that a command line holds at most.
MaxArgs == 3

\* What an argument can be: each flag the scan knows, a word it does not
\* know, and a path.
Tokens ==
    {"--input", "-i", "--output", "-o", "--silent", "--warm-up", "--help",
     "-h", "--bogus", "in.mcap"}

\* The lists of at most n tokens.
RECURSIVE ArgLists(_)
ArgLists(n) ==
    IF n = 0 THEN {<< >>}
    ELSE LET shorter == ArgLists(n - 1) IN
         shorter \cup {Append(a, t) :
                           a \in {x \in shorter : Len(x) = n - 1}, t \in Tokens}

\* env::args(): the program name and the arguments.
CliArgs == {<<"mcap-videoify">> \o a : a \in ArgLists(MaxArgs)}

InitCli == \E a \in CliArgs : InitWith(a)

\* read_it from its first statement to the creation of the writer, and main:
\* the part of the program that a command line decides.  A run that the
\* argument scan ends (an error, --help, --warm-up) has the same steps here
\* as under Next; a run that gets to the message stream is Spec's.
NextCli ==
    \/ ScanArg
    \/ WarmUp
    \/ OpenInput
    \/ Setup
    \/ Main

SpecCli == InitCli /\ [][NextCli]_vars

\* ------------------------------------------------------------------ claims

IsWrite(e) == e.op = "write"
IsAddChannel(e) == e.op = "add_channel"

\* The output records, in the order the writer accepted them.
Written == SelectSeq(video_mcap, IsWrite)

\* A record that has a schema which is not the still-image signature.
OtherRecord(m) ==
    /\ IsSome(m.channel.schema)
    /\ \/ Unwrap(m.channel.schema).name # "foxglove.CompressedImage"
       \/ Unwrap(m.channel.schema).encoding # "protobuf"

\* A record of the still-image signature.
ImageRecord(m) ==
    /\ IsSome(m.channel.schema)
    /\ Unwrap(m.channel.schema).name = "foxglove.CompressedImage"
    /\ Unwrap(m.channel.schema).encoding = "protobuf"

\* The record the loop is working on, if any.
InFlight == pc \notin {"main", "exited"} /\ Len(input) = Len(processed) + 1
Current == input[Len(input)]
LastCall == video_mcap[Len(video_mcap)]

\* Input record k, already processed, was passed through or transcoded to a
\* non-empty access unit.
Emits(k) ==
    \/ OtherRecord(input[k])
    \/ ImageRecord(input[k]) /\ processed[k].unit # << >>

\* The processed input records that have an output record, in input order.
Sources == SelectSeq([k \in 1..Len(processed) |-> k], Emits)

SameTiming(out, src) ==
    /\ out.log_time = src.log_time
    /\ out.publish_time = src.publish_time
    /\ out.sequence = src.sequence

\* C1: every step on a record of another schema leaves the encoder pool and
\* the channel registry as they are, and the step that completes the record
\* hands the writer exactly one record, equal to the input record in payload,
\* channel, log time, publish time and sequence number; the one other way the
\* record can end is the writer rejecting that write, which aborts the run.
C1_PassThroughUnchanged ==
    [][(InFlight /\ OtherRecord(Current)) =>
         /\ UNCHANGED <<topic_channels, encoders_by_topic, encoders_created>>
         /\ \/ /\ pc' = "next"
               /\ Len(processed') = Len(input)
               /\ Len(video_mcap') = Len(video_mcap) + 1
               /\ SubSeq(video_mcap', 1, Len(video_mcap)) = video_mcap
               /\ LastCall'.op = "write"
               /\ LastCall'.message.data = Current.data
               /\ LastCall'.message.channel = Current.channel
               /\ SameTiming(LastCall'.message, Current)
            \/ /\ pc' = "exited"
               /\ stderr' = Append(stderr, "panicked: write")
               /\ video_mcap' = video_mcap
               /\ processed' = processed]_vars

C1_Witness ==
    /\ pc = "next"
    /\ Len(processed) = 2
    /\ OtherRecord(input[2])
    /\ ImageRecord(input[1])
    /\ LastCall.op = "write"
    /\ LastCall.message = input[2]
    /\ DOMAIN encoders_by_topic # {}

\* C2: whenever the writer accepts an output record while the record being
\* processed has the still-image signature, the output record's log time,
\* publish time and sequence number are those of that input record.
C2_TimingPreserved ==
    [][(/\ InFlight
        /\ ImageRecord(Current)
        /\ Len(video_mcap') > Len(video_mcap)
        /\ LastCall'.op = "write") =>
          SameTiming(LastCall'.message, Current)]_vars

C2_Witness ==
    /\ Len(processed) = 2
    /\ ImageRecord(input[1]) /\ ImageRecord(input[2])
    /\ input[1].log_time # input[2].log_time
    /\ Len(Written) = 2
    /\ SameTiming(Written[1].message, input[1])
    /\ SameTiming(Written[2].message, input[2])

\* The calls that registered a channel of topic t.
Registrations(t) ==
    {n \in 1..Len(video_mcap) :
        IsAddChannel(video_mcap[n]) /\ video_mcap[n].channel.topic = t}

\* The encoders created for topic t.
Creations(t) ==
    {n \in 1..Len(encoders_created) : encoders_created[n].topic = t}

\* C3: in a run, no topic has two encoders created or two channels
\* registered with the writer, and all completed image records of one derived
\* topic used the same encoder and the same channel.
C3_OncePerTopic ==
    /\ \A n \in 1..Len(encoders_created) :
         Cardinality(Creations(encoders_created[n].topic)) = 1
    /\ \A n \in 1..Len(video_mcap) :
         IsAddChannel(video_mcap[n]) =>
           Cardinality(Registrations(video_mcap[n].channel.topic)) = 1
    /\ \A j, k \in 1..Len(processed) :
         (/\ ImageRecord(input[j]) /\ ImageRecord(input[k])
          /\ processed[j].topic = processed[k].topic) =>
           /\ processed[j].encoder = processed[k].encoder
           /\ processed[j].channel = processed[k].channel

C3_Witness ==
    /\ Len(processed) = 2
    /\ ImageRecord(input[1]) /\ ImageRecord(input[2])
    /\ processed[1].topic = processed[2].topic
    /\ Len(encoders_created) = 1
    /\ Cardinality(Registrations(processed[1].topic)) = 1
    /\ encoders_by_topic[processed[1].topic].frames = 2

\* The loop is at the emptiness test of a frame whose image decoded and for
\* which the encoder returned a zero-length access unit.
AtEmptySkip == pc = "write" /\ InFlight /\ ImageRecord(Current) /\ bitstream = << >>

\* C4: a frame whose image decoded and whose access unit is empty has no
\* output record written, the step that skips it raises no error, and the
\* loop goes on to the next input record.
C4_EmptyBitstreamSkipped ==
    [][AtEmptySkip =>
         /\ video_mcap' = video_mcap
         /\ UNCHANGED <<result, exit_code, stderr>>
         /\ pc' = "next"
         /\ Len(processed') = Len(input)]_vars

C4_Witness ==
    /\ Len(processed) = 2
    /\ ImageRecord(input[1])
    /\ processed[1].unit = << >>
    /\ Len(Written) = 1
    /\ Written[1].message = input[2]
    /\ stderr = << >>

\* Output record `out` is the output of input record k.
OutputOf(out, k) ==
    /\ SameTiming(out, input[k])
    /\ IF OtherRecord(input[k])
       THEN out = input[k]
       ELSE /\ out.channel.topic = processed[k].topic
            /\ out.data.data = processed[k].unit

\* C5: the output records are, one to one and in the same order, the outputs
\* of the processed input records that were passed through or transcoded to a
\* non-empty access unit.
C5_OrderMirrorsInput ==
    /\ Len(processed) <= Len(input)
    /\ Len(Written) = Len(Sources)
    /\ \A j \in 1..Len(Written) : OutputOf(Written[j].message, Sources[j])

C5_Witness ==
    /\ Len(processed) = 2
    /\ ImageRecord(input[1]) /\ processed[1].unit # << >>
    /\ OtherRecord(input[2])
    /\ Sources = <<1, 2>>
    /\ Len(Written) = 2
    /\ Written[1].message.channel.topic = "/cam_video"
    /\ Written[2].message = input[2]

\* How many of the first n writer calls are writes.
WriteRank(n) == Cardinality({m \in 1..n : IsWrite(video_mcap[m])})

\* C6: every accepted write of a transcoded record, of input topic T, is on
\* the channel of topic T_video, and that channel was registered with the
\* writer exactly once, by a call that precedes the write.
C6_RegisteredBeforeWrite ==
    \A n \in 1..Len(video_mcap) :
        (/\ IsWrite(video_mcap[n])
         /\ WriteRank(n) <= Len(Sources)
         /\ ImageRecord(input[Sources[WriteRank(n)]])) =>
          LET t == input[Sources[WriteRank(n)]].channel.topic \o "_video" IN
          /\ video_mcap[n].message.channel.topic = t
          /\ \E r \in 1..(n - 1) :
               /\ Registrations(t) = {r}
               /\ video_mcap[r].channel = video_mcap[n].message.channel

C6_Witness ==
    /\ Len(video_mcap) = 3
    /\ IsAddChannel(video_mcap[1])
    /\ IsWrite(video_mcap[2]) /\ IsWrite(video_mcap[3])
    /\ video_mcap[1].channel.topic = "/cam_video"
    /\ video_mcap[2].message.channel = video_mcap[1].channel
    /\ video_mcap[3].message.channel = video_mcap[1].channel
    /\ ImageRecord(input[1]) /\ ImageRecord(input[2])

\* The descriptor of the still-image type in any file of a descriptor set.
ImageTypes(set) ==
    UNION {{m \in set.file[n].message_type :
               m.full_name = ".foxglove.CompressedImage"} :
           n \in 1..Len(set.file)}

\* A still-image record that cannot be transcoded whatever the libraries do:
\* schema bytes that are no descriptor set, no such type in the set, a type
\* without one of the three fields, a payload that does not parse, image
\* bytes that do not decode.
Malformed(m) ==
    /\ ImageRecord(m)
    /\ LET set == Unwrap(m.channel.schema).data IN
       \/ ~set.valid
       \/ ImageTypes(set) = {}
       \/ \E d \in ImageTypes(set) :
            ~({"timestamp", "frame_id", "data"} \subseteq d.field)
       \/ ~m.data.valid
       \/ ~IsSome(m.data.data)
       \/ ~Unwrap(m.data.data).decodable

\* The run has failed: an error was returned to main or a panic was reported.
Failed == stderr # << >> \/ (IsSome(result) /\ ~Unwrap(result).ok)

\* C7: a malformed still-image record is the last record the run reads and
\* has no output record; a step on a still-image record that fails writes
\* nothing; and once the run has failed nothing more is read, written,
\* registered or created.
C7_AbortOnFirstError ==
    /\ [](\A k \in 1..Len(input) :
            Malformed(input[k]) =>
              /\ k = Len(input)
              /\ Len(processed) = k - 1
              /\ Len(Written) = Len(Sources))
    /\ [][/\ (InFlight /\ ImageRecord(Current) /\ Failed') =>
               /\ pc' \in {"main", "exited"}
               /\ UNCHANGED <<video_mcap, input, processed>>
          /\ Failed =>
               /\ pc' = "exited"
               /\ UNCHANGED <<video_mcap, input, processed, topic_channels,
                              encoders_by_topic, encoders_created>>]_vars

C7_Witness ==
    /\ pc = "exited"
    /\ Len(input) = 2
    /\ ImageRecord(input[1]) /\ ~Malformed(input[1])
    /\ Malformed(input[2])
    /\ Len(processed) = 1
    /\ Len(Written) = 1
    /\ exit_code # 0

\* The messages of the fatal error kinds: InputOpenError, SchemaParseError,
\* TypeNotFoundError, FieldMissingError, ImageDecodeError, EncodeError,
\* ChannelRegistrationError, OutputWriteError.
FatalMessages ==
    {"Couldn't open MCAP file", "Couldn't map MCAP file", "SchemaParse",
     "index out of bounds", "message_by_full_name", "field_by_name",
     "ImageDecode", "Encoder::with_config", "encode",
     "Couldn't write channel", "write"}

\* The run ended on one of the fatal error kinds.
FatalError ==
    \E e \in FatalMessages :
        \/ stderr = <<"panicked: " \o e>>
        \/ IsSome(result) /\ ~Unwrap(result).ok /\ Unwrap(result).err = e

\* C8: a run that processed the whole input ends with exit code 0, and a run
\* that ended on a fatal error of one of the eight kinds ends with exit code
\* 1 and its message on the error stream.
C8_ExitCodes ==
    pc = "exited" =>
      /\ (IsSome(result) /\ Unwrap(result).ok) => exit_code = 0
      /\ FatalError => exit_code = 1 /\ Len(stderr) = 1

\* The schema bytes of a still-image channel are no descriptor set.
BadSchema(m) == ImageRecord(m) /\ ~Unwrap(m.channel.schema).data.valid

\* C9: a record of a still-image channel whose schema bytes are no descriptor
\* set is the last record read and has no output record; the run leaves the
\* loop at that record with the schema parse error returned to main, and
\* ends with exit code 1 and the error on the error stream.
C9_BadSchemaAborts ==
    \A k \in 1..Len(input) :
        BadSchema(input[k]) =>
          /\ k = Len(input)
          /\ Len(processed) = k - 1
          /\ Len(Written) = Len(Sources)
          /\ \/ pc \in {"classify", "resolve"}
             \/ /\ pc \in {"main", "exited"}
                /\ result = Some([ok |-> FALSE, err |-> "SchemaParse"])
                /\ pc = "exited" =>
                     /\ exit_code = 1
                     /\ stderr = <<"Error: SchemaParse">>

C9_Witness ==
    /\ pc = "exited"
    /\ exit_code = 1
    /\ Len(input) = 2
    /\ BadSchema(input[2])
    /\ Len(Written) = 1
    /\ stderr = <<"Error: SchemaParse">>

\* C10: the derived topic of a still-image record of topic T is T followed by
\* "_video", and two processed still-image records used the same encoder,
\* and the same output channel, exactly when their input topics are equal.
C10_DerivedTopicInjective ==
    /\ (pc \in {"encode", "assemble", "channel", "write"}) =>
         topic = Current.channel.topic \o "_video"
    /\ \A k \in 1..Len(processed) :
         ImageRecord(input[k]) =>
           /\ processed[k].topic = input[k].channel.topic \o "_video"
           /\ processed[k].channel.topic = input[k].channel.topic \o "_video"
    /\ \A j, k \in 1..Len(processed) :
         (ImageRecord(input[j]) /\ ImageRecord(input[k])) =>
           /\ (processed[j].encoder = processed[k].encoder)
                <=> (input[j].channel.topic = input[k].channel.topic)
           /\ (processed[j].channel = processed[k].channel)
                <=> (input[j].channel.topic = input[k].channel.topic)

C10_Witness ==
    /\ Len(processed) = 2
    /\ input[1].channel.topic = "/cam_video"
    /\ input[2].channel.topic = "/cam"
    /\ ImageRecord(input[1]) /\ ImageRecord(input[2])
    /\ processed[1].topic = "/cam_video_video"
    /\ processed[2].topic = "/cam_video"
    /\ processed[1].encoder # processed[2].encoder
    /\ DOMAIN topic_channels = {"/cam_video", "/cam_video_video"}

\* The parsed schema bytes of a still-image record.
SchemaSet(m) == Unwrap(m.channel.schema).data

\* A still-image record whose schema bytes are a descriptor set in which
\* every imported file is a file of the set.
ValidSet(m) ==
    /\ ImageRecord(m)
    /\ SchemaSet(m).valid
    /\ \A n \in 1..Len(SchemaSet(m).file) :
         SchemaSet(m).file[n].dependency
           \subseteq {SchemaSet(m).file[j].name : j \in 1..Len(SchemaSet(m).file)}

\* The run stopped at the lookup of the still-image type.
TypeNotFound ==
    \/ stderr = <<"panicked: index out of bounds">>
    \/ stderr = <<"panicked: message_by_full_name">>

\* C11: for a still-image record whose schema is a valid descriptor set, the
\* lookup of the type foxglove.CompressedImage yields a descriptor of that
\* name whenever some file of the set, at any position, declares it, and the
\* run stops at the lookup only when no file of the set declares it.
C11_ResolvesByName ==
    (Len(input) > 0 /\ Len(processed) = Len(input) - 1 /\ ValidSet(Current)) =>
      /\ (pc = "exited" /\ TypeNotFound) => ImageTypes(SchemaSet(Current)) = {}
      /\ (pc = "parse") => msg \in ImageTypes(SchemaSet(Current))

\* C12: a record whose channel has no schema is never the record at which the
\* run fails, and once processed it is in the output as it was read.
C12_NoSchemaPassesThrough ==
    \A k \in 1..Len(input) :
        ~IsSome(input[k].channel.schema) =>
          /\ ~(k = Len(input) /\ Len(processed) = k - 1 /\ Failed)
          /\ k <= Len(processed) =>
               \E n \in 1..Len(Written) : Written[n].message = input[k]

\* The finish calls the writer has accepted from the driver.
FinishCalls == {n \in 1..Len(video_mcap) : video_mcap[n].op = "finish"}

\* The run converted its input to the end: read_it returned Ok.
Succeeded == IsSome(result) /\ Unwrap(result).ok

\* C13: the driver reaches its finalize step only from the head of the loop,
\* when the stream has ended, with every record read also processed and no
\* failure; the writer has at most one finish call, it is its last call, and a
\* run that returned Ok has exactly one; a run that failed at a record or
\* earlier never is at the finalize step and has no finish call.
C13_FinalizedOnceAtEnd ==
    /\ [](/\ Cardinality(FinishCalls) <= 1
          /\ FinishCalls # {} =>
               /\ FinishCalls = {Len(video_mcap)}
               /\ pc \in {"main", "exited"}
               /\ Succeeded
               /\ stderr = << >>
          /\ Succeeded => FinishCalls # {}
          /\ pc = "finish" =>
               /\ Len(processed) = Len(input)
               /\ ~Failed
               /\ FinishCalls = {})
    /\ [][/\ pc' = "finish" => pc = "next"
          /\ FinishCalls' # FinishCalls => pc = "finish" /\ pc' = "main"
          /\ FinishCalls # {} => video_mcap' = video_mcap
          /\ (Failed /\ pc # "finish") => pc' # "finish"]_vars

C13_Witness ==
    /\ pc = "exited"
    /\ exit_code = 0
    /\ Len(input) = 2
    /\ Len(processed) = 2
    /\ Len(video_mcap) = 4
    /\ IsAddChannel(video_mcap[1])
    /\ IsWrite(video_mcap[2]) /\ IsWrite(video_mcap[3])
    /\ FinishCalls = {4}

\* read_it returned the error of map_mcap: the open or the mapping failed.
InputOpenError ==
    /\ IsSome(result)
    /\ Unwrap(result).err \in {"Couldn't open MCAP file", "Couldn't map MCAP file"}

\* C14: as long as the input is not mapped nothing has been processed: no
\* output file is created, the writer has no call, both maps are empty, no
\* record is read and no encoder is created; and when opening or mapping the
\* input fails, the input stays unmapped, read_it returns the error and the
\* process prints it and exits with code 1.
C14_InputOpenAbortsFirst ==
    /\ mapped = None =>
         /\ files = {}
         /\ video_mcap = << >>
         /\ input = << >> /\ processed = << >>
         /\ encoders_created = << >>
         /\ DOMAIN topic_channels = {} /\ DOMAIN encoders_by_topic = {}
    /\ InputOpenError =>
         /\ mapped = None
         /\ pc \in {"main", "exited"}
         /\ pc = "exited" =>
              /\ exit_code = 1
              /\ stderr = <<"Error: " \o Unwrap(result).err>>

C14_Witness ==
    /\ pc = "exited"
    /\ InputOpenError
    /\ input_path = Some("in.mcap")
    /\ output_path = "out.mcap"
    /\ files = {}
    /\ exit_code = 1

ValueFlags == {"--input", "-i", "--output", "-o"}
HelpFlags == {"--help", "-h"}
PlainFlags == {"--silent", "--warm-up"}

\* The positions of an argument list, from position k on, that are read as a
\* flag in a left-to-right reading in which --input/-i and --output/-o take
\* the next argument as their value (position 1 is the program name).
RECURSIVE FlagPositions(_, _)
FlagPositions(a, k) ==
    IF k > Len(a) THEN {}
    ELSE {k} \cup FlagPositions(a, IF a[k] \in ValueFlags THEN k + 2 ELSE k + 1)

Flags(a) == FlagPositions(a, 2)

\* The flag positions that hold an unrecognized argument, or --input/-i or
\* --output/-o as the last argument.
Bad(a) ==
    {k \in Flags(a) :
        \/ a[k] \notin ValueFlags \cup HelpFlags \cup PlainFlags
        \/ a[k] \in ValueFlags /\ k = Len(a)}

Helps(a) == {k \in Flags(a) : a[k] \in HelpFlags}
WarmUps(a) == {k \in Flags(a) : a[k] = "--warm-up"}

First(S) == CHOOSE k \in S : \A j \in S : k <= j

\* The input has not been opened, no output file created, no record read.
Untouched ==
    /\ mapped = None
    /\ files = {}
    /\ video_mcap = << >>
    /\ input = << >>

\* C15 as stated: a command line with an unrecognized argument or a value
\* flag without value exits with code 1, whatever else it holds, and never
\* opens the input or creates the output.
C15_BadArgumentsAlwaysExitOne ==
    Bad(args) # {} =>
      /\ Untouched
      /\ pc = "exited" => exit_code = 1

\* C15, amended: such a command line never opens the input or creates the
\* output; it exits with code 1 and one line on the error stream when no
\* --help/-h stands before the first such argument, and with code 0 and the
\* help text when one does.
C15_BadArgumentExitsOneUnlessHelp ==
    Bad(args) # {} =>
      /\ Untouched
      /\ pc \in {"scan", "main", "exited"}
      /\ pc = "exited" =>
           IF First(Bad(args) \cup Helps(args)) \in Bad(args)
           THEN /\ exit_code = 1
                /\ Len(stderr) = 1
                /\ stdout = << >>
                /\ i = First(Bad(args)) - 1
           ELSE /\ exit_code = 0
                /\ stderr = << >>
                /\ stdout = <<HelpLine>>

C15_Witness ==
    /\ pc = "exited"
    /\ args = <<"mcap-videoify", "-i", "in.mcap", "--bogus">>
    /\ input_path = Some("in.mcap")
    /\ exit_code = 1
    /\ stderr = <<"Error: Unexpected argument: --bogus">>
    /\ Untouched

AtEncoderReuse ==
    /\ pc = "encoder"
    /\ (Current.channel.topic \o "_video") \in DOMAIN encoders_by_topic

\* The width and height of the decoded image of a still-image record.
FrameSize(m) == <<Unwrap(m.data.data).width, Unwrap(m.data.data).height>>

\* C16: every encoder in the pool has the dimensions of the first frame
\* decoded on its topic, the identity it was created with and the fixed bit
\* rate; the lookup for a later frame on the topic, whatever the frame's size,
\* creates nothing, changes nothing in the pool and raises no error, and the
\* frame is then submitted to that encoder with its own size.
C16_EncoderDimensionsFixed ==
    /\ [](/\ \A t \in DOMAIN encoders_by_topic :
               LET e == encoders_by_topic[t]
                   first == CHOOSE k \in 1..Len(input) :
                              /\ ImageRecord(input[k])
                              /\ input[k].channel.topic \o "_video" = t
                              /\ \A j \in 1..(k - 1) :
                                   ~(/\ ImageRecord(input[j])
                                     /\ input[j].channel.topic = input[k].channel.topic)
               IN  /\ <<e.width, e.height>> = FrameSize(input[first])
                   /\ encoders_created[e.id].topic = t
                   /\ <<encoders_created[e.id].width,
                        encoders_created[e.id].height>> = <<e.width, e.height>>
                   /\ e.bitrate_bps = 10000000
          /\ pc = "assemble" /\ bitstream # << >> =>
               <<bitstream[1].width, bitstream[1].height>> = FrameSize(Current))
    /\ [][AtEncoderReuse =>
            /\ UNCHANGED <<encoders_by_topic, encoders_created>>
            /\ pc' = "encode"
            /\ UNCHANGED <<result, exit_code, stderr>>]_vars

C16_Witness ==
    /\ pc = "assemble"
    /\ Len(input) = 2
    /\ input[1].channel.topic = "/cam" /\ input[2].channel.topic = "/cam"
    /\ FrameSize(input[1]) = <<64, 48>>
    /\ FrameSize(input[2]) = <<32, 24>>
    /\ Len(encoders_created) = 1
    /\ encoders_by_topic["/cam_video"].width = 64
    /\ encoders_by_topic["/cam_video"].height = 48
    /\ encoders_by_topic["/cam_video"].frames = 2
    /\ bitstream # << >>
    /\ bitstream[1].width = 32

\* The input topics that had a record of the still-image signature.
ImageTopics == {input[k].channel.topic : k \in {j \in 1..Len(input) : ImageRecord(input[j])}}

\* The input records of the still-image signature on topic t, in input order.
MatchingOn(t) ==
    SelectSeq(input, LAMBDA m : ImageRecord(m) /\ m.channel.topic = t)

\* An output record on a channel of the video schema.
IsVideo(e) ==
    /\ IsSome(e.message.channel.schema)
    /\ Unwrap(e.message.channel.schema).name = "foxglove.CompressedVideo"

\* The video records written on topic t, in output order.
VideoOn(t) ==
    SelectSeq(Written, LAMBDA e : IsVideo(e) /\ e.message.channel.topic = t)

\* The output records that are no video records, and the input records that
\* are not of the still-image signature.
Copied == SelectSeq(Written, LAMBDA e : ~IsVideo(e))
Unrelated == SelectSeq(input, OtherRecord)

\* Each of the n output records has the log and publish time of a source
\* record, by a strictly increasing assignment of source records.
InSourceOrder(out, src) ==
    \E f \in [1..Len(out) -> 1..Len(src)] :
        /\ \A a, b \in 1..Len(out) : a < b => f[a] < f[b]
        /\ \A a \in 1..Len(out) :
             /\ out[a].message.log_time = src[f[a]].log_time
             /\ out[a].message.publish_time = src[f[a]].publish_time

\* C17: when a run has returned Ok, every input topic T that had a
\* still-image record has exactly one registered output channel of topic
\* T_video, of schema foxglove.CompressedVideo and encoding protobuf, also if
\* no video record was written on it; the video records on T_video are at
\* most as many as the still-image records on T and carry the log and publish
\* times of distinct ones of them, in source order; and the other output
\* records are the other input records, unchanged and in input order.
C17_SuccessfulRunOutput ==
    Succeeded =>
      /\ \A t \in ImageTopics :
           /\ Cardinality(Registrations(t \o "_video")) = 1
           /\ \A r \in Registrations(t \o "_video") :
                /\ IsSome(video_mcap[r].channel.schema)
                /\ Unwrap(video_mcap[r].channel.schema).name
                     = "foxglove.CompressedVideo"
                /\ Unwrap(video_mcap[r].channel.schema).encoding = "protobuf"
                /\ video_mcap[r].channel.message_encoding = "protobuf"
           /\ Len(VideoOn(t \o "_video")) <= Len(MatchingOn(t))
           /\ InSourceOrder(VideoOn(t \o "_video"), MatchingOn(t))
      /\ \A n \in 1..Len(video_mcap) :
           IsAddChannel(video_mcap[n]) =>
             \E t \in ImageTopics : video_mcap[n].channel.topic = t \o "_video"
      /\ \A n \in 1..Len(Written) :
           IsVideo(Written[n]) =>
             \E t \in ImageTopics : Written[n].message.channel.topic = t \o "_video"
      /\ Copied = [n \in 1..Len(Unrelated) |-> [op |-> "write", message |-> Unrelated[n]]]

C17_Witness ==
    /\ pc = "exited"
    /\ Succeeded
    /\ Len(input) = 2
    /\ ImageTopics = {"/cam"}
    /\ Registrations("/cam_video") = {1}
    /\ Written = << >>
    /\ processed[1].unit = << >> /\ processed[2].unit = << >>

\* The value of an optional payload field, or the default of its type.
ValueOr(field, default) == IF Len(field) = 1 THEN field[1] ELSE default

\* How many still-image records of the topic of input record k the input
\* holds up to and including k.
FrameNumber(k) ==
    Cardinality({j \in 1..k : /\ ImageRecord(input[j])
                              /\ input[j].channel.topic = input[k].channel.topic})

\* C18: the payload of the output record of a transcoded input record has the
\* timestamp (seconds, nanoseconds) and the frame identifier of that record's
\* payload, or (0, 0) and the empty string where the payload leaves them
\* unset, the format "h264", and as data the non-empty access unit that the
\* topic's encoder returned for that record's frame: the unit of the encoder
\* the record used, of that frame's number on the topic and that frame's size.
C18_PayloadFromSource ==
    /\ Len(Written) = Len(Sources)
    /\ \A j \in 1..Len(Written) :
         LET k == Sources[j]
             payload == Written[j].message.data
         IN  ImageRecord(input[k]) =>
               /\ payload.timestamp = ValueOr(input[k].data.timestamp, <<0, 0>>)
               /\ payload.frame_id = ValueOr(input[k].data.frame_id, "")
               /\ payload.format = "h264"
               /\ payload.data = processed[k].unit
               /\ Len(payload.data) = 1
               /\ payload.data[1].encoder = processed[k].encoder
               /\ payload.data[1].frame = FrameNumber(k)
               /\ <<payload.data[1].width, payload.data[1].height>>
                    = FrameSize(input[k])
    /\ pc \in {"channel", "write"} =>
         /\ out_msg.data = bitstream
         /\ out_msg.timestamp = ValueOr(Current.data.timestamp, <<0, 0>>)
         /\ out_msg.frame_id = ValueOr(Current.data.frame_id, "")

C18_Witness ==
    /\ Len(Written) = 2
    /\ input[1].channel.topic = "/cam" /\ input[2].channel.topic = "/cam"
    /\ ImageRecord(input[1]) /\ ImageRecord(input[2])
    /\ input[1].data.timestamp = None
    /\ Written[1].message.data.timestamp = <<0, 0>>
    /\ Written[1].message.data.frame_id = ""
    /\ Written[1].message.data.data[1].frame = 1
    /\ Written[2].message.data.timestamp = <<10, 500>>
    /\ Written[2].message.data.frame_id = "cam"
    /\ Written[2].message.data.format = "h264"
    /\ Written[2].message.data.data[1].frame = 2

\* The positions of the loop body up to and including the image decoding,
\* and the positions between two iterations and after the loop.
UpToDecode == {"classify", "resolve", "parse", "fields", "decode"}
BetweenRecords == {"next", "finish", "main"}

\* C20: the topics of the channel registry are always among the topics of the
\* encoder pool, which are the topics encoders were created for; the two sets
\* are equal between iterations, up to the encoder lookup of an iteration and
\* from the channel lookup on, hence after every processed record, and a
\* processed still-image record has its derived topic in both; no step up to
\* and including the image decoding, failing or not, changes either map: the
\* pool gets a topic only at the encoder lookup, the registry only at the
\* channel lookup that follows it.
C20_RegistryWithinPool ==
    /\ [](/\ DOMAIN topic_channels \subseteq DOMAIN encoders_by_topic
          /\ DOMAIN encoders_by_topic
               = {encoders_created[n].topic : n \in 1..Len(encoders_created)}
          /\ pc \in BetweenRecords \cup UpToDecode \cup {"encoder", "write"} =>
               DOMAIN topic_channels = DOMAIN encoders_by_topic
          /\ \A k \in 1..Len(processed) :
               ImageRecord(input[k]) =>
                 (input[k].channel.topic \o "_video") \in DOMAIN topic_channels)
    /\ [][/\ pc \in UpToDecode =>
               UNCHANGED <<topic_channels, encoders_by_topic, encoders_created>>
          /\ Len(processed') > Len(processed) =>
               DOMAIN topic_channels' = DOMAIN encoders_by_topic'
          /\ DOMAIN encoders_by_topic' # DOMAIN encoders_by_topic =>
               pc = "encoder"
          /\ DOMAIN topic_channels' # DOMAIN topic_channels =>
               /\ pc = "channel"
               /\ DOMAIN topic_channels' = DOMAIN encoders_by_topic]_vars

C20_Witness ==
    /\ pc = "channel"
    /\ Len(processed) = 1
    /\ DOMAIN encoders_by_topic = {"/cam_video", "/cam_video_video"}
    /\ DOMAIN topic_channels = {"/cam_video"}
    /\ topic = "/cam_video_video"

====
